---- MODULE Spec2Model ----
(***************************************************************************)
(* Model of src/src/main1.py (class Arm and the coroutine main) together   *)
(* with the callers of Arm that src/src/ControlGUI.py sets up.             *)
(*                                                                         *)
(* Units.  Masses are multiples of 0.5 kg, lengths multiples of 0.5 m,     *)
(* gravity is in 0.01 m/s^2 (9.81 -> 981), angles are quarter turns, and   *)
(* time is in units of 10 ms.  Python's float quotients are kept exact as  *)
(* fractions [n, d]; rounding is not modelled.                             *)
(*                                                                         *)
(* The plant.  Arm drives a pydrake MultibodyPlant.  The calls that store  *)
(* (SetParameter, SetBodySpatialInertiaInBodyFrame, SetPositions,          *)
(* SetVelocities) are modelled as storing what they are given, and         *)
(* CalcInverseDynamics by the formula Drake documents for it.              *)
(*                                                                         *)
(* Scheduling.  Everything runs on one thread.  `running` names the piece  *)
(* of code that currently owns the thread; a piece gives the thread up     *)
(* only at an await (or when it returns to the event loop).  Statements of *)
(* the synchronous methods are separate steps, so that "no interleaving"   *)
(* is something the model decides and not something it assumes.            *)
(***************************************************************************)
EXTENDS Integers, Sequences, FiniteSets, TLC

VARIABLES
    m1, m2, l1, l2,   \* Arm.m1, Arm.m2, Arm.l1, Arm.l2
    constructed,      \* Arm.__init__ has returned normally
    endMassParam,     \* value of plant parameter end_mass_param in the context
    link2,            \* spatial inertia of body link2 in the context
    positions,        \* plant positions in the context
    velocities,       \* plant velocities in the context
    upd,              \* activation record of Arm.set_end_mass
    qry,              \* activation record of Arm.calculate_inverse_dynamics
    running,          \* which code owns the thread
    pc,               \* position of the coroutine main1.main
    now,              \* wall clock
    latency,          \* round-trip time of transport.cycle
    submitted,        \* batches handed to transport.cycle, in order
    stopReturned,     \* the stop cycle has returned normally
    stopResp,         \* ids that answered the stop cycle
    results,          \* value bound to `results` at line 155
    exc,              \* exception that left main (propagated by asyncio.run)
    wake,             \* time at which asyncio.sleep returns
    completed,        \* awaits of transport.cycle that have returned or raised
    qLocal,           \* main's local `q` (line 167)
    gui               \* ControlGUI.py: the script, its window and set_load

armVars == <<m1, m2, l1, l2, constructed, endMassParam, link2, positions,
             velocities, upd, qry>>
loopVars == <<pc, now, latency, submitted, stopReturned, stopResp, results,
              exc, wake, completed, qLocal>>
vars == <<m1, m2, l1, l2, constructed, endMassParam, link2, positions,
          velocities, upd, qry, running, pc, now, latency, submitted,
          stopReturned, stopResp, results, exc, wake, completed, qLocal,
          gui>>

----------------------------------------------------------------------------
\* Bounds of the model.
MaxMass == 2
MaxLen == 1
MaxEndMass == 4
MaxVecLen == 3
MaxLatency == 12
MaxBatches == 4

\* Program constants.
NumJoints == 2
Gravity == 981
CyclePeriod == 2
WatchdogTimeout == 10

Masses == 1..MaxMass
Lengths == 1..MaxLen
EndMasses == (0 - MaxEndMass)..MaxEndMass
Entries == {0, 1}
Vectors == UNION {[1..n -> Entries] : n \in 1..MaxVecLen}
Latencies == 0..MaxLatency
Servos == {1, 2}

----------------------------------------------------------------------------
\* Exact fractions.
Frac(n, d) == [n |-> n, d |-> d]
FracEq(a, b) == a.n * b.d = b.n * a.d
FracLt(a, b) == a.n * b.d < b.n * a.d
FracAdd(a, b) == Frac(a.n * b.d + b.n * a.d, a.d * b.d)
FracScale(k, a) == Frac(k * a.n, a.d)

----------------------------------------------------------------------------
\* Arm.set_end_mass, lines 71-73: the three locals.
TotalMass2_Accumulate(e) == link2.mass + e
TotalMass2(e) == m2 + e
Com2(e) == Frac(m2 * l2 + 2 * e * l2, 2 * TotalMass2(e))
Inertia2_Centroidal(e) == Frac(m2 * l2 * l2 + 12 * e * l2 * l2, 12)
Inertia2(e) == Frac(m2 * l2 * l2 + 4 * e * l2 * l2, 4)

\* lines 79-83: the SpatialInertia built from the locals.
SpatialInertia(mass, com, G) == [mass |-> mass, com |-> com, G |-> G]

\* drake.RotationalInertia throws when handed a negative moment and
\* drake.SpatialInertia when handed a negative mass.  Drake rejects more
\* than that; the model keeps these two rejections only, so it has every
\* normal return of set_end_mass that the code has.
InertiaValid(mass, G) == mass >= 0 /\ G.n >= 0

\* lines 71-83 as one value: the inertia set_end_mass(e) composes.
InertiaFor(e) == SpatialInertia(TotalMass2(e), Com2(e), Inertia2(e))

\* line 38: the placeholder inertia link2 is added with.
DefaultInertia == SpatialInertia(0, Frac(0, 1), Frac(0, 1))

\* What the context holds when a method of Arm is entered; the activation
\* record keeps it so that the effect of a call can be told from its start.
Snapshot(param, inertia) == [param |-> param, link2 |-> inertia]

NoUpd == [pc |-> "idle", arg |-> 0, ctor |-> FALSE, total |-> 0,
          com |-> Frac(0, 1), I2 |-> Frac(0, 1), M2 |-> DefaultInertia,
          exc |-> "none", before |-> Snapshot(0, DefaultInertia)]
NoQry == [pc |-> "idle", lens |-> <<>>, exc |-> "none", vd |-> <<>>,
          tau |-> <<Frac(0, 1), Frac(0, 1)>>,
          before |-> Snapshot(0, DefaultInertia)]

\* ControlGUI.py not running: no script, no window.
NoGui == [pc |-> "none", m1 |-> 0, l1 |-> 0, m2 |-> 0, l2 |-> 0, e |-> 0,
          label |-> 0, load |-> 0, exc |-> "none"]

UpdInFlight == upd.pc \in {"l71", "l76", "l79", "l84"}
QryInFlight == qry.pc \in {"l89", "l90", "l93"}

----------------------------------------------------------------------------
\* Arm.calculate_inverse_dynamics, lines 93-95, for the plant lines 28-58
\* build.  Both revolute joints turn about z and both are placed at the
\* body-frame origins, so link2 hinges at the origin of link1, which is the
\* world origin: the two bodies turn about one fixed point, the mass matrix
\* does not depend on q and the velocity-dependent term C(q, v) v vanishes.
\*
\* Drake's CalcInverseDynamics(context, vd, forces) returns
\*     tau = M(q) vd + C(q, v) v - (the generalized forces of `forces`),
\* and the only forces it accounts for are those of its third argument.

\* mass * G about the joint axis, of each body (lines 31-33 and 79-83).
Moment1 == Frac(m1 * m1 * l1 * l1, 12)
Moment2(M) == Frac(M.mass * M.G.n, M.G.d)

\* line 94: MultibodyForces(self.plant) is a fresh object holding no force;
\* the gravity field of line 58 is not added to it.
AppliedForces(M, q) == <<Frac(0, 1), Frac(0, 1)>>

ElbowTorque(M, q, vd) ==
    FracAdd(FracScale(vd[1] + vd[2], Moment2(M)),
            FracScale(0 - 1, AppliedForces(M, q)[2]))
ShoulderTorque(M, q, vd) ==
    FracAdd(FracAdd(FracScale(vd[1], Moment1),
                    FracScale(vd[1] + vd[2], Moment2(M))),
            FracScale(0 - 1, AppliedForces(M, q)[1]))
CalcInverseDynamics(M, q, vd) ==
    <<ShoulderTorque(M, q, vd), ElbowTorque(M, q, vd)>>

----------------------------------------------------------------------------
\* Who owns the thread between two statements of set_end_mass: the method is
\* a plain def with no await, so the caller keeps the thread throughout.
OwnerInSetEndMass_Yields == "none"
OwnerInSetEndMass == "update"

\* A caller (ControlGUI.set_load line 53, or any other) enters set_end_mass.
UpdCall(e) ==
    /\ running = "none"
    /\ constructed
    /\ upd.pc = "idle"
    /\ upd' = [NoUpd EXCEPT !.pc = "l71", !.arg = e,
                            !.before = Snapshot(endMassParam, link2)]
    /\ running' = OwnerInSetEndMass
    /\ UNCHANGED <<m1, m2, l1, l2, constructed, endMassParam, link2,
                   positions, velocities, qry>>
    /\ UNCHANGED loopVars
    /\ UNCHANGED gui

\* lines 71-73.  Line 72 divides by total_mass2.
UpdL71 ==
    /\ running = "update"
    /\ upd.pc = "l71"
    /\ IF TotalMass2(upd.arg) = 0
       THEN upd' = [upd EXCEPT !.pc = "raised", !.exc = "ZeroDivisionError"]
       ELSE upd' = [upd EXCEPT !.pc = "l76",
                               !.total = TotalMass2(upd.arg),
                               !.com = Com2(upd.arg),
                               !.I2 = Inertia2(upd.arg)]
    /\ running' = OwnerInSetEndMass
    /\ UNCHANGED <<m1, m2, l1, l2, constructed, endMassParam, link2,
                   positions, velocities, qry>>
    /\ UNCHANGED loopVars
    /\ UNCHANGED gui

\* line 76: SetParameter.
UpdL76 ==
    /\ running = "update"
    /\ upd.pc = "l76"
    /\ endMassParam' = upd.arg
    /\ upd' = [upd EXCEPT !.pc = "l79"]
    /\ running' = OwnerInSetEndMass
    /\ UNCHANGED <<m1, m2, l1, l2, constructed, link2, positions,
                   velocities, qry>>
    /\ UNCHANGED loopVars
    /\ UNCHANGED gui

\* lines 79-83: M2 is built; the constructors reject an invalid inertia.
UpdL79 ==
    /\ running = "update"
    /\ upd.pc = "l79"
    /\ IF InertiaValid(upd.total, upd.I2)
       THEN upd' = [upd EXCEPT !.pc = "l84",
                               !.M2 = SpatialInertia(upd.total, upd.com, upd.I2)]
       ELSE upd' = [upd EXCEPT !.pc = "raised", !.exc = "RuntimeError"]
    /\ running' = OwnerInSetEndMass
    /\ UNCHANGED <<m1, m2, l1, l2, constructed, endMassParam, link2,
                   positions, velocities, qry>>
    /\ UNCHANGED loopVars
    /\ UNCHANGED gui

\* line 84: SetBodySpatialInertiaInBodyFrame, then the method returns.
UpdL84 ==
    /\ running = "update"
    /\ upd.pc = "l84"
    /\ link2' = upd.M2
    /\ upd' = [upd EXCEPT !.pc = "returned"]
    /\ running' = OwnerInSetEndMass
    /\ UNCHANGED <<m1, m2, l1, l2, constructed, endMassParam, positions,
                   velocities, qry>>
    /\ UNCHANGED loopVars
    /\ UNCHANGED gui

\* The caller is done with the call and gives the thread back.  For the
\* call of line 67 this ends Arm.__init__: an exception leaves no Arm.
\* (A call made by ControlGUI.set_load continues in that coroutine.)
UpdReturn ==
    /\ running = "update"
    /\ upd.pc \in {"returned", "raised"}
    /\ gui.pc # "l53"
    /\ upd' = NoUpd
    /\ constructed' = IF upd.ctor THEN upd.pc = "returned" ELSE constructed
    /\ running' = IF upd.ctor /\ upd.pc = "raised" THEN "dead" ELSE "none"
    /\ UNCHANGED <<m1, m2, l1, l2, endMassParam, link2, positions,
                   velocities, qry>>
    /\ UNCHANGED loopVars
    /\ UNCHANGED gui

----------------------------------------------------------------------------
\* Arm.calculate_inverse_dynamics.  The plant has one position and one
\* velocity per revolute joint (lines 44-55); SetPositions, SetVelocities
\* and CalcInverseDynamics throw on a vector of any other size.
SizeOk_AtLeast(x) == Len(x) >= NumJoints
SizeOk(x) == Len(x) = NumJoints

\* Who owns the thread between two statements of the method: a plain def.
OwnerInInverseDynamics == "query"

QryCall ==
    /\ running = "none"
    /\ constructed
    /\ qry.pc = "idle"
    /\ qry' = [NoQry EXCEPT !.pc = "l89",
                            !.before = Snapshot(endMassParam, link2)]
    /\ running' = OwnerInInverseDynamics
    /\ UNCHANGED <<m1, m2, l1, l2, constructed, endMassParam, link2,
                   positions, velocities, upd>>
    /\ UNCHANGED loopVars
    /\ UNCHANGED gui

\* line 89 preceded by self.context = self.plant.CreateDefaultContext():
\* the positions go into a fresh context, which holds the default parameter
\* and the inertia link2 was added with.
QryL89_FreshContext(q) ==
    /\ running = "query"
    /\ qry.pc = "l89"
    /\ endMassParam' = 0
    /\ link2' = DefaultInertia
    /\ IF SizeOk(q)
       THEN /\ positions' = q
            /\ qry' = [qry EXCEPT !.pc = "l90", !.lens = Append(@, Len(q))]
       ELSE /\ positions' = positions
            /\ qry' = [qry EXCEPT !.pc = "raised", !.exc = "RuntimeError",
                                  !.lens = Append(@, Len(q))]
    /\ running' = OwnerInInverseDynamics
    /\ UNCHANGED <<m1, m2, l1, l2, constructed, velocities, upd>>
    /\ UNCHANGED loopVars
    /\ UNCHANGED gui

\* line 89: SetPositions(context, q).
QryL89(q) ==
    /\ running = "query"
    /\ qry.pc = "l89"
    /\ IF SizeOk(q)
       THEN /\ positions' = q
            /\ qry' = [qry EXCEPT !.pc = "l90", !.lens = Append(@, Len(q))]
       ELSE /\ positions' = positions
            /\ qry' = [qry EXCEPT !.pc = "raised", !.exc = "RuntimeError",
                                  !.lens = Append(@, Len(q))]
    /\ running' = OwnerInInverseDynamics
    /\ UNCHANGED <<m1, m2, l1, l2, constructed, endMassParam, link2,
                   velocities, upd>>
    /\ UNCHANGED loopVars
    /\ UNCHANGED gui

\* line 90: SetVelocities(context, v).
QryL90(v) ==
    /\ running = "query"
    /\ qry.pc = "l90"
    /\ IF SizeOk(v)
       THEN /\ velocities' = v
            /\ qry' = [qry EXCEPT !.pc = "l93", !.lens = Append(@, Len(v))]
       ELSE /\ velocities' = velocities
            /\ qry' = [qry EXCEPT !.pc = "raised", !.exc = "RuntimeError",
                                  !.lens = Append(@, Len(v))]
    /\ running' = OwnerInInverseDynamics
    /\ UNCHANGED <<m1, m2, l1, l2, constructed, endMassParam, link2,
                   positions, upd>>
    /\ UNCHANGED loopVars
    /\ UNCHANGED gui

\* lines 93-95: CalcInverseDynamics(context, vd, no applied forces).
QryL93(vd) ==
    /\ running = "query"
    /\ qry.pc = "l93"
    /\ IF SizeOk(vd)
       THEN qry' = [qry EXCEPT !.pc = "returned", !.lens = Append(@, Len(vd)),
                               !.vd = vd,
                               !.tau = CalcInverseDynamics(link2, positions, vd)]
       ELSE qry' = [qry EXCEPT !.pc = "raised", !.exc = "RuntimeError",
                               !.lens = Append(@, Len(vd))]
    /\ running' = OwnerInInverseDynamics
    /\ UNCHANGED <<m1, m2, l1, l2, constructed, endMassParam, link2,
                   positions, velocities, upd>>
    /\ UNCHANGED loopVars
    /\ UNCHANGED gui

\* The caller is done with the call and gives the thread back.
QryReturn ==
    /\ running = "query"
    /\ qry.pc \in {"returned", "raised"}
    /\ qry' = NoQry
    /\ running' = "none"
    /\ UNCHANGED <<m1, m2, l1, l2, constructed, endMassParam, link2,
                   positions, velocities, upd>>
    /\ UNCHANGED loopVars
    /\ UNCHANGED gui

----------------------------------------------------------------------------
\* The state at line 67 of Arm.__init__: fields bound (lines 19-22), plant
\* built and finalized, default context, set_end_mass(initial_end_mass)
\* entered.
ArmAtLine67(a, b, c, d, e) ==
    /\ m1 = a /\ m2 = b /\ l1 = c /\ l2 = d
    /\ constructed = FALSE
    /\ endMassParam = 0
    /\ link2 = DefaultInertia
    /\ positions = <<0, 0>>
    /\ velocities = <<0, 0>>
    /\ upd = [NoUpd EXCEPT !.pc = "l71", !.arg = e, !.ctor = TRUE]
    /\ qry = NoQry
    /\ running = "update"

\* main1.main before its first statement.
LoopAtStart(lat) ==
    /\ pc = "start"
    /\ now = 0
    /\ latency = lat
    /\ submitted = <<>>
    /\ stopReturned = FALSE
    /\ stopResp = {}
    /\ results = {}
    /\ exc = "none"
    /\ wake = 0
    /\ completed = 0
    /\ qLocal = "unbound"

----------------------------------------------------------------------------
\* main1.main.  A batch is what one transport.cycle call is given.
StopBatch(t) == [kind |-> "stop", ids |-> Servos, at |-> t]
PositionBatch(t) == [kind |-> "position", ids |-> Servos, at |-> t]

\* line 121: the batch main submits first.
FirstBatch(t) == StopBatch(t)

\* line 121: the value of the awaited stop cycle is dropped, whoever answered.
StopCycleAccepted_NeedsReply(resp) == resp # {}
StopCycleAccepted(resp) == TRUE

\* lines 121-129: nothing is awaited between the return of the stop cycle
\* and the body of the loop.
LoopEntryTime_Delayed(t) == t + WatchdogTimeout
LoopEntryTime(t) == t

\* lines 121 and 155 stand in no try block: an exception of transport.cycle
\* leaves main.
PcAfterTransportError_Retry == "l129"
PcAfterTransportError == "raised"

\* line 167: `results` is the list transport.cycle returned (lines 157-158,
\* and line 175 iterates it); a list has no attribute `values`.
FoldRaises(res) == TRUE

LastBatch == submitted[Len(submitted)]

\* lines 101-121: transport and controllers are built, the first batch is
\* submitted and main suspends.
MainStart ==
    /\ running = "none"
    /\ pc = "start"
    /\ submitted' = Append(submitted, FirstBatch(now))
    /\ pc' = "await_stop"
    /\ running' = "none"
    /\ UNCHANGED <<now, latency, stopReturned, stopResp, results, exc, wake,
                   completed, qLocal>>
    /\ UNCHANGED armVars
    /\ UNCHANGED gui

\* The event loop resumes main when what it awaits is done: the stop cycle
\* (line 121), a command cycle (line 155) with the replies of `resp`, or
\* the sleep (line 180).
Resume(resp) ==
    /\ running = "none"
    /\ pc \in {"await_stop", "await_cycle", "sleeping"}
    /\ running' = "main"
    /\ CASE pc = "await_stop" ->
              IF StopCycleAccepted(resp)
              THEN /\ pc' = "l129"
                   /\ now' = LoopEntryTime(LastBatch.at + latency)
                   /\ stopReturned' = TRUE
                   /\ stopResp' = resp
                   /\ UNCHANGED <<results, wake>>
              ELSE /\ pc' = "returned"
                   /\ now' = LastBatch.at + latency
                   /\ stopReturned' = TRUE
                   /\ stopResp' = resp
                   /\ UNCHANGED <<results, wake>>
         [] pc = "await_cycle" ->
              /\ pc' = "l167"
              /\ now' = LastBatch.at + latency
              /\ results' = resp
              /\ UNCHANGED <<stopReturned, stopResp, wake>>
         [] pc = "sleeping" ->
              /\ pc' = "l129"
              /\ now' = wake
              /\ UNCHANGED <<stopReturned, stopResp, results, wake>>
    /\ completed' = IF pc = "sleeping" THEN completed ELSE completed + 1
    /\ UNCHANGED <<latency, submitted, exc, qLocal>>
    /\ UNCHANGED armVars
    /\ UNCHANGED gui

\* transport.cycle raises instead of returning (a bus is unreachable).
TransportRaises ==
    /\ running = "none"
    /\ pc \in {"await_stop", "await_cycle"}
    /\ now' = LastBatch.at + latency
    /\ exc' = "TransportError"
    /\ pc' = PcAfterTransportError
    /\ running' = IF PcAfterTransportError = "raised" THEN "dead" ELSE "main"
    /\ completed' = completed + 1
    /\ UNCHANGED <<latency, submitted, stopReturned, stopResp, results, wake,
                   qLocal>>
    /\ UNCHANGED armVars
    /\ UNCHANGED gui

\* The task of main is cancelled from outside (Ctrl-C under asyncio.run,
\* line 183, or Task.cancel).  asyncio throws CancelledError into main at
\* the await it is suspended at; main has no try block and no flag it polls,
\* so the exception leaves it there and the awaited result is never bound.
Cancelled ==
    /\ running = "none"
    /\ pc \in {"await_stop", "await_cycle", "sleeping"}
    /\ exc' = "CancelledError"
    /\ pc' = "raised"
    /\ running' = "dead"
    /\ UNCHANGED <<now, latency, submitted, stopReturned, stopResp, results,
                   wake, completed, qLocal>>
    /\ UNCHANGED armVars
    /\ UNCHANGED gui

\* lines 129-149: the two position commands are built from time.time().
L129 ==
    /\ running = "main"
    /\ pc = "l129"
    /\ pc' = "l155"
    /\ UNCHANGED <<now, latency, submitted, stopReturned, stopResp, results,
                   exc, wake, completed, qLocal, running>>
    /\ UNCHANGED armVars
    /\ UNCHANGED gui

\* line 155 with the call not awaited: the batch is handed over and main
\* goes on to the next iteration.
L155_NoAwait ==
    /\ running = "main"
    /\ pc = "l155"
    /\ Len(submitted) < MaxBatches
    /\ submitted' = Append(submitted, PositionBatch(now))
    /\ pc' = "l129"
    /\ UNCHANGED <<now, latency, stopReturned, stopResp, results, exc, wake,
                   completed, qLocal, running>>
    /\ UNCHANGED armVars
    /\ UNCHANGED gui

\* line 155: the batch is submitted and main suspends.
L155 ==
    /\ running = "main"
    /\ pc = "l155"
    /\ Len(submitted) < MaxBatches
    /\ submitted' = Append(submitted, PositionBatch(now))
    /\ pc' = "await_cycle"
    /\ running' = "none"
    /\ UNCHANGED <<now, latency, stopReturned, stopResp, results, exc, wake,
                   completed, qLocal>>
    /\ UNCHANGED armVars
    /\ UNCHANGED gui

\* The reading servo i reports in the k-th cycle, as a token.
Reported(i, k) == <<i, k>>

\* lines 167-180: the results are read and printed, then main sleeps.  The
\* right-hand side of line 167 is evaluated before `q` is bound.
L167 ==
    /\ running = "main"
    /\ pc = "l167"
    /\ IF FoldRaises(results)
       THEN /\ exc' = "AttributeError"
            /\ pc' = "raised"
            /\ running' = "dead"
            /\ wake' = wake
            /\ qLocal' = qLocal
       ELSE /\ exc' = exc
            /\ pc' = "sleeping"
            /\ running' = "none"
            /\ wake' = now + CyclePeriod
            /\ qLocal' = [i \in results |-> Reported(i, completed)]
    /\ UNCHANGED <<now, latency, submitted, stopReturned, stopResp, results,
                   completed>>
    /\ UNCHANGED armVars
    /\ UNCHANGED gui

----------------------------------------------------------------------------
\* ControlGUI.py run as a script.

\* The names module main1 binds at import (lines 7-16 and 97).
Main1Names == {"asyncio", "math", "moteus", "moteus_pi3hat", "time", "np",
               "drake", "Arm", "main"}

\* ControlGUI.py line 73: the attribute the script looks up in main1, and
\* the arguments it passes, in the order it passes them.
CalledName == "arm"
CallArgs == <<gui.m1, gui.l1, gui.m2, gui.l2, gui.e>>

\* ControlGUI.py lines 67-70: the four values are plain numbers; line 73
\* passes them by position, so a length can land where a mass is expected.
ScriptValues == Masses \cup Lengths

\* The script at line 73, with the values of lines 67-71 bound.
ScriptAtLine73(a, b, c, d, e) ==
    gui = [NoGui EXCEPT !.pc = "l73", !.m1 = a, !.l1 = b, !.m2 = c,
                        !.l2 = d, !.e = e]

\* ControlGUI.py line 73.  A name main1 does not bind raises AttributeError
\* and ends the script.  Otherwise Arm.__init__(self, m1, m2, l1, l2,
\* initial_end_mass) (main1.py line 17) takes the arguments by position and
\* runs to line 67.
EntryL73 ==
    /\ running = "none"
    /\ gui.pc = "l73"
    /\ IF CalledName \in Main1Names
       THEN /\ m1' = CallArgs[1]
            /\ m2' = CallArgs[2]
            /\ l1' = CallArgs[3]
            /\ l2' = CallArgs[4]
            /\ upd' = [NoUpd EXCEPT !.pc = "l71", !.arg = CallArgs[5],
                                    !.ctor = TRUE]
            /\ running' = "update"
            /\ gui' = [gui EXCEPT !.pc = "l76"]
       ELSE /\ gui' = [gui EXCEPT !.pc = "raised", !.exc = "AttributeError"]
            /\ running' = "dead"
            /\ UNCHANGED <<m1, m2, l1, l2, upd>>
    /\ UNCHANGED <<constructed, endMassParam, link2, positions, velocities,
                   qry>>
    /\ UNCHANGED loopVars

\* ControlGUI.py line 34: the text the label is created with, "Current
\* Load: 0.2 kg", as the number of tenths of a kilogram it shows.
InitialLabel == 2

\* ControlGUI.py line 54: f"{load_value:.1f} kg" for a load given in the
\* model's mass unit of 0.5 kg, as tenths of a kilogram.
LabelFor(load) == 5 * load

\* ControlGUI.py line 42: the loads of the buttons, 1.0 to 5.0 kg, in the
\* mass unit.  (The 0.2 kg button is not a multiple of the unit and is left
\* out.)
LoadValues == {2, 4, 6, 8, 10}

\* main1.py lines 69-84: set_end_mass has no return statement.
SetEndMassResult == "None"

\* ControlGUI.py line 53: `await x` needs an awaitable; None is not one.
Awaitable(x) == x # "None"

\* The script past line 73 with an Arm under construction (the call of line
\* 73 taken as a working Arm(...) call): line 76 is next.
ScriptAtLine76 == gui = [NoGui EXCEPT !.pc = "l76"]

\* ControlGUI.py lines 76-77: ArmControlGUI(arm), initUI (lines 22-48), show.
GuiL76 ==
    /\ running = "none"
    /\ constructed
    /\ gui.pc = "l76"
    /\ gui' = [gui EXCEPT !.pc = "idle", !.label = InitialLabel]
    /\ UNCHANGED running
    /\ UNCHANGED armVars
    /\ UNCHANGED loopVars

\* A load button is clicked: the slot starts set_load (lines 50-53), which
\* evaluates self.arm.set_end_mass(load_value).
SetLoadCall(load) ==
    /\ running = "none"
    /\ constructed
    /\ gui.pc = "idle"
    /\ upd.pc = "idle"
    /\ gui' = [gui EXCEPT !.pc = "l53", !.load = load, !.exc = "none"]
    /\ upd' = [NoUpd EXCEPT !.pc = "l71", !.arg = load,
                            !.before = Snapshot(endMassParam, link2)]
    /\ running' = OwnerInSetEndMass
    /\ UNCHANGED <<m1, m2, l1, l2, constructed, endMassParam, link2,
                   positions, velocities, qry>>
    /\ UNCHANGED loopVars

\* ControlGUI.py lines 53-55: set_end_mass is back.  Its exception, or the
\* TypeError of awaiting its return value, leaves set_load; otherwise the
\* label is set.
SetLoadL53 ==
    /\ running = "update"
    /\ gui.pc = "l53"
    /\ upd.pc \in {"returned", "raised"}
    /\ gui' = IF upd.pc = "raised"
              THEN [gui EXCEPT !.pc = "idle", !.exc = upd.exc]
              ELSE IF Awaitable(SetEndMassResult)
                   THEN [gui EXCEPT !.pc = "idle", !.label = LabelFor(gui.load)]
                   ELSE [gui EXCEPT !.pc = "idle", !.exc = "TypeError"]
    /\ upd' = NoUpd
    /\ running' = "none"
    /\ UNCHANGED <<m1, m2, l1, l2, constructed, endMassParam, link2,
                   positions, velocities, qry>>
    /\ UNCHANGED loopVars

InitArm ==
    /\ \E a \in Masses, b \in Masses, c \in Lengths, d \in Lengths, e \in EndMasses :
           ArmAtLine67(a, b, c, d, e)
    /\ LoopAtStart(0)
    /\ gui = NoGui

NextArm ==
    \/ \E e \in EndMasses : UpdCall(e)
    \/ UpdL71
    \/ UpdL76
    \/ UpdL79
    \/ UpdL84
    \/ UpdReturn
    \/ QryCall
    \/ \E q \in Vectors : QryL89(q)
    \/ \E v \in Vectors : QryL90(v)
    \/ \E vd \in Vectors : QryL93(vd)
    \/ QryReturn

\* The Arm used on its own: construction, then any sequence of calls.
SpecArm == InitArm /\ [][NextArm]_vars

\* main1.main on its own (line 183): no Arm exists in that program.
NoArm ==
    /\ m1 = 1 /\ m2 = 1 /\ l1 = 1 /\ l2 = 1
    /\ constructed = FALSE
    /\ endMassParam = 0
    /\ link2 = DefaultInertia
    /\ positions = <<0, 0>>
    /\ velocities = <<0, 0>>
    /\ upd = NoUpd
    /\ qry = NoQry
    /\ running = "none"

InitLoop ==
    /\ NoArm
    /\ \E lat \in Latencies : LoopAtStart(lat)
    /\ gui = NoGui

NextLoop ==
    \/ MainStart
    \/ \E resp \in SUBSET Servos : Resume(resp)
    \/ TransportRaises
    \/ Cancelled
    \/ L129
    \/ L155
    \/ L167

SpecLoop == InitLoop /\ [][NextLoop]_vars

\* ControlGUI.py started as a script, for any choice of the values of lines
\* 67-71.
InitEntry ==
    /\ NoArm
    /\ LoopAtStart(0)
    /\ \E a \in ScriptValues, b \in ScriptValues, c \in ScriptValues,
          d \in ScriptValues, e \in EndMasses :
           ScriptAtLine73(a, b, c, d, e)

NextEntry == EntryL73

SpecEntry == InitEntry /\ [][NextEntry]_vars

\* The window of ControlGUI.py over an Arm: construction of the Arm, the
\* window, then any sequence of button clicks.
InitGui ==
    /\ \E a \in Masses, b \in Masses, c \in Lengths, d \in Lengths, e \in EndMasses :
           ArmAtLine67(a, b, c, d, e)
    /\ LoopAtStart(0)
    /\ ScriptAtLine76

NextGui ==
    \/ UpdL71
    \/ UpdL76
    \/ UpdL79
    \/ UpdL84
    \/ UpdReturn
    \/ GuiL76
    \/ \E load \in LoadValues : SetLoadCall(load)
    \/ SetLoadL53

SpecGui == InitGui /\ [][NextGui]_vars

\* An Arm with the values of ControlGUI.py lines 67-71 whose methods are
\* called from callbacks of the event loop that runs main1.main.
Init ==
    /\ ArmAtLine67(1, 1, 1, 1, 1)
    /\ LoopAtStart(1)
    /\ gui = NoGui

Next == NextArm \/ NextLoop

Spec == Init /\ [][Next]_vars

----------------------------------------------------------------------------
\* Properties.

SameInertia(A, B) ==
    /\ A.mass = B.mass
    /\ FracEq(A.com, B.com)
    /\ FracEq(A.G, B.G)

RunningPcs == {"l129", "l155", "await_cycle", "l167", "sleeping"}
SuspendedPcs == {"start", "await_stop", "await_cycle", "sleeping", "raised",
                 "returned"}

\* C1: whenever an inverse-dynamics query can start (the Arm exists, the
\* thread is free, no query is running), link2's inertia is the one composed
\* from the stored end-mass parameter.
C1_ParamMatchesInertia ==
    (constructed /\ running = "none" /\ qry.pc = "idle")
        => SameInertia(link2, InertiaFor(endMassParam))

\* C2: the first batch is a stop for every servo; a position batch is
\* submitted only after the stop cycle has returned; and once it has
\* returned main is in its loop, whoever answered the stop.
C2_InitOrdering ==
    /\ submitted # <<>> =>
           /\ submitted[1].kind = "stop"
           /\ submitted[1].ids = Servos
    /\ \A i \in 1..Len(submitted) :
           submitted[i].kind = "position" =>
               /\ i > 1
               /\ stopReturned
               /\ submitted[i].at >= submitted[1].at + latency
    /\ stopReturned => (pc \in RunningPcs \/ Len(submitted) >= 2)

C2_Witness ==
    /\ stopReturned
    /\ stopResp = {}
    /\ pc = "await_cycle"
    /\ Len(submitted) = 2
    /\ submitted[2].kind = "position"

\* C3: the loop does not stop on its own: main is left only by an
\* exception of the transport or by a cancellation.
C3_LoopNeverStops ==
    pc = "raised" => exc \in {"TransportError", "CancelledError"}

\* C4: an exception of transport.cycle ends main, reaches the caller of
\* asyncio.run, and no batch is submitted afterwards; main is never resumed.
C4_FaultHalts ==
    /\ [](exc = "TransportError" => (pc = "raised" /\ running = "dead"))
    /\ [][pc = "raised" => (pc' = "raised" /\ submitted' = submitted
                            /\ exc' = exc)]_vars

C4_Witness ==
    /\ exc = "TransportError"
    /\ pc = "raised"
    /\ Len(submitted) = 2

C6_UpdateExcludesQuery ==
    UpdInFlight =>
        /\ running = "update"
        /\ ~QryInFlight
        /\ pc \in SuspendedPcs

C6_Witness ==
    /\ UpdInFlight
    /\ ~upd.ctor
    /\ upd.pc = "l79"
    /\ pc = "await_cycle"

C8_NegativeMassRejected ==
    /\ endMassParam >= 0
    /\ (upd.arg < 0 /\ upd.pc \in {"returned", "raised"})
           => (upd.pc = "raised" /\ upd.exc = "InvalidStateError")

\* C9 as claimed: after set_end_mass(e), e >= 0, link2 has mass m2 + e, its
\* centre of mass at (m2*(l2/2) + e*l2)/(m2 + e), and rotational inertia
\* m2*l2^2/12 (the link about its centroid, as line 33 has it for link1)
\* plus e*l2^2.
C9_CentroidalInertia ==
    (upd.pc = "returned" /\ upd.arg >= 0) =>
        /\ link2.mass = m2 + upd.arg
        /\ link2.com.n * 2 * (m2 + upd.arg)
               = link2.com.d * (m2 * l2 + 2 * upd.arg * l2)
        /\ 12 * link2.G.n
               = link2.G.d * (m2 * l2 * l2 + 12 * upd.arg * l2 * l2)

\* C9 as amended: ... and rotational inertia m2*(l2/2)^2 + e*l2^2, link2's
\* mass taken as a point at half length plus the end mass at full length.
C9_CompositeInertia ==
    (upd.pc = "returned" /\ upd.arg >= 0) =>
        /\ link2.mass = m2 + upd.arg
        /\ link2.com.n * 2 * (m2 + upd.arg)
               = link2.com.d * (m2 * l2 + 2 * upd.arg * l2)
        /\ 4 * link2.G.n
               = link2.G.d * (m2 * l2 * l2 + 4 * upd.arg * l2 * l2)

C9_Witness ==
    /\ upd.pc = "returned"
    /\ ~upd.ctor
    /\ upd.arg > 0
    /\ link2.mass = m2 + upd.arg
    /\ endMassParam = upd.arg

\* C10: when set_end_mass(b) replaces the inertia composed for a, with
\* 0 <= a < b, the shoulder torque at q = v = vd = [0, 0] grows; for
\* m1 = l1 = m2 = l2 = 0.5, a = 0.5 and b = 2.0 it grows by the gravity
\* moment of 1.5 kg at 0.5 m.
RestTorque(M) == ShoulderTorque(M, <<0, 0>>, <<0, 0>>)

C10_TorqueGrowsWithMass ==
    [][(upd.pc = "l84" /\ upd'.pc = "returned") =>
          \A a \in 0..MaxEndMass :
              (link2 = InertiaFor(a) /\ a < upd.arg) =>
                  /\ FracLt(RestTorque(link2), RestTorque(link2'))
                  /\ (m1 = 1 /\ l1 = 1 /\ m2 = 1 /\ l2 = 1 /\ a = 1
                          /\ upd.arg = 4) =>
                       FracEq(FracAdd(RestTorque(link2'),
                                      FracScale(0 - 1, RestTorque(link2))),
                              Frac(3 * 1 * Gravity, 1))]_vars

\* C11: a set_end_mass(e), e >= 0, that returns leaves the parameter e and
\* the inertia composed from m2, l2 and e alone, whatever the context held
\* before; and when the context already held the result of set_end_mass(e),
\* the call leaves parameter and inertia (hence every later torque) as they
\* were.
C11_Idempotent ==
    (upd.pc = "returned" /\ upd.arg >= 0) =>
        /\ endMassParam = upd.arg
        /\ link2.mass = m2 + upd.arg
        /\ FracEq(link2.com, Frac(m2 * l2 + 2 * upd.arg * l2,
                                  2 * (m2 + upd.arg)))
        /\ FracEq(link2.G, Frac(m2 * l2 * l2 + 4 * upd.arg * l2 * l2, 4))
        /\ (~upd.ctor /\ upd.before.param = upd.arg) =>
               /\ endMassParam = upd.before.param
               /\ link2 = upd.before.link2
               /\ \A vd \in Vectors :
                      Len(vd) = NumJoints =>
                          CalcInverseDynamics(link2, positions, vd)
                              = CalcInverseDynamics(upd.before.link2,
                                                    positions, vd)

C11_Witness ==
    /\ upd.pc = "returned"
    /\ ~upd.ctor
    /\ upd.arg > 0
    /\ upd.before.param = upd.arg

\* C12: a command cycle that returns without the reply of some servo (or of
\* any) raises nothing in main: when main has been left and the last
\* `results` lacked a reply, what left it was the transport's exception or
\* a cancellation, not the handling of the results.
C12_PartialResultsTolerated ==
    (pc = "raised" /\ Len(submitted) >= 2 /\ results # Servos)
        => exc \in {"TransportError", "CancelledError"}

\* C13: a cancellation never ends main while a transport round-trip is
\* awaited; it waits for the awaited cycle to return.
C13_CancelAtBoundary ==
    [][(pc \in {"await_stop", "await_cycle"} /\ exc = "none")
           => exc' # "CancelledError"]_vars

\* C14: at most one transport.cycle call is outstanding; main runs its own
\* statements (building, submitting, reading results) only when none is;
\* every batch is submitted no earlier than the return of the one before
\* it; and a batch that follows a command cycle is submitted only after
\* that cycle's results were read.
InFlight == Len(submitted) - completed

C14_OneCycleInFlight ==
    /\ InFlight \in {0, 1}
    /\ pc \in {"l129", "l155", "l167"} => InFlight = 0
    /\ pc \in {"await_stop", "await_cycle"} => InFlight = 1
    /\ \A i \in 1..(Len(submitted) - 1) :
           submitted[i + 1].at >= submitted[i].at + latency
    /\ Len(submitted) >= 3 => qLocal # "unbound"

C14_Witness ==
    /\ Len(submitted) = 2
    /\ completed = 2
    /\ pc = "l167"
    /\ latency > 0
    /\ submitted[2].at = submitted[1].at + latency

\* C15: once a command cycle has returned with replies and main is past
\* line 167, the position main holds for every servo that replied is the
\* one that servo reported in that cycle.
C15_StateFolded ==
    (/\ Len(submitted) >= 2
     /\ completed = Len(submitted)
     /\ results # {}
     /\ pc # "l167"
     /\ exc \notin {"TransportError", "CancelledError"})
        => /\ qLocal # "unbound"
           /\ \A i \in results : qLocal[i] = Reported(i, completed)

\* C16: from its entry to its return, calculate_inverse_dynamics leaves the
\* end-mass parameter and link2's inertia as it found them (link1's inertia
\* is fixed by m1 and l1, which no statement assigns); and the torques it
\* returns are those of the inertias in the context and of the q and vd it
\* was given, so they do not depend on earlier queries.
C16_QueryFrame ==
    qry.pc # "idle" =>
        /\ endMassParam = qry.before.param
        /\ link2 = qry.before.link2
        /\ qry.pc = "returned" =>
               qry.tau = CalcInverseDynamics(qry.before.link2, positions,
                                             qry.vd)

C16_Witness ==
    /\ qry.pc = "returned"
    /\ positions = <<1, 0>>
    /\ velocities = <<0, 1>>
    /\ qry.vd = <<1, 1>>
    /\ endMassParam > 0

\* C17: when the round-trip fits in the period, main goes from reading the
\* results to sleeping, and is woken one period after the batch of this
\* cycle was submitted.
C17_SleepsRemainder ==
    [][(pc = "l167" /\ latency <= CyclePeriod)
           => (pc' = "sleeping" /\ wake' = LastBatch.at + CyclePeriod)]_vars

\* C18: once the script is past line 73 an Arm is being built whose link-1
\* mass and length and link-2 mass and length are the script's m1, l1, m2
\* and l2.
C18_BoundAsNamed ==
    gui.pc \notin {"none", "l73"} =>
        /\ gui.exc = "none"
        /\ m1 = gui.m1
        /\ l1 = gui.l1
        /\ m2 = gui.m2
        /\ l2 = gui.l2

\* C19: when a set_end_mass call on an existing Arm has raised, the context
\* holds the parameter and the link2 inertia it held when the call began.
C19_FailedUpdateNotTorn ==
    (upd.pc = "raised" /\ ~upd.ctor) =>
        /\ endMassParam = upd.before.param
        /\ link2 = upd.before.link2

\* C20: whenever the window is up and no set_load is running, the label
\* shows the Arm's end mass.
C20_LabelShowsEndMass ==
    (gui.pc = "idle" /\ running = "none")
        => gui.label = LabelFor(endMassParam)
====
